---------------------------- MODULE Spec2Model ----------------------------
(***************************************************************************)
(* A model of the ARCO-ERA5 chunk ingestion code:                          *)
(*   src/src/arco_era5/update_co.py        catalog, copy, opener,          *)
(*                                         GenerateOffset, UpdateSlice     *)
(*   src/src/arco_era5/ingest_data_in_zarr.py   CO_FILES_MAPPING           *)
(*   src/src/single-levels-to-zarr.py      make_path                       *)
(*   src/src/raw-to-zarr-to-bq.py          the driver (__main__)           *)
(*                                                                         *)
(* Strings that the code takes apart (urls, dates) are sequences of        *)
(* tokens: one token per decimal digit, one per separator, one per name.   *)
(***************************************************************************)
EXTENDS Integers, Sequences, FiniteSets, TLC

VARIABLES
    \* --- the GenerateOffset stage (update_co.py:79-101)
    gen,        \* the GenerateOffset instance: init_date, timestamps_per_file, is_single_level
    pcoll,      \* the input PCollection: a sequence of urls
    offsets,    \* what beam.Map(self.apply) has produced so far, per element
    shards,     \* the (time, chunk) each url of pcoll was generated for
    \* --- the UpdateSlice stage (update_co.py:104-125) of one Dataflow job
    target,     \* UpdateSlice.target: the store the job writes
    units,      \* per element: where UpdateSlice.apply stands, and its locals
    tmpfiles,   \* the temporary files that exist on the workers
    zarr,       \* the store: per variable, the stretches of the array written so far
    \* --- the driver, raw-to-zarr-to-bq.py:160-213
    dpc,             \* the statement __main__ stands at
    data_is_missing, \* the variable of that name, raw-to-zarr-to-bq.py:192-194
    present,         \* the dates of data_date_range whose raw data is in the bucket
    verified,        \* what each check_data_availability call found missing, the first MaxChecks calls
    cycles,          \* the turns of the loop body (download and split again), counted up to MaxChecks
    sinceCheck,      \* the acquisition jobs launched since the last check (or the start)
    splits,          \* the thread pool of data_splitting_dataflow_job: per dataset, its command
    pool,            \* the thread pool of perform_data_operations: per store, its unit
    \* --- one call of ingest_data_in_zarr_dataflow_job, ingest_data_in_zarr.py:50-98
    job              \* the store the call is for, its target_path, and what the call came to

offsetVars == <<gen, pcoll, offsets, shards>>

ingestVars == <<target, units, tmpfiles, zarr>>

driverVars == <<dpc, data_is_missing, present, verified, cycles, sinceCheck, splits, pool>>

jobVars == <<job>>

vars == <<gen, pcoll, offsets, shards, target, units, tmpfiles, zarr,
          dpc, data_is_missing, present, verified, cycles, sinceCheck, splits, pool,
          job>>

-----------------------------------------------------------------------------
(* Bounds of the model *)

\* number of recent years (2023, 2024, ...) the shard dates are drawn from
NumYears == 2

\* number of groups of a store (the first ones of its list) a job ingests
MaxChunks == 4

\* number of consecutive dates (months or days) in the range a job ingests
RangeLen == 2

\* number of dates in the driver's data_date_range
NumDates == 2

\* number of availability checks whose findings are kept, and the value at
\* which the count of loop turns stops counting
MaxChecks == 3

\* length of BQ_TABLES_LIST and REGION_LIST, which the environment gives
NumTables == 3

-----------------------------------------------------------------------------
(* The variable catalog, update_co.py:15-56 *)

variable_dict ==
    ("dve" :> <<"d", "vo">>) @@
    ("tw" :> <<"t", "w">>) @@
    ("o3q" :> <<"q", "o3", "clwc", "ciwc", "cc">>) @@
    ("qrqs" :> <<"crwc", "cswc">>) @@
    ("lnsp" :> <<"lnsp">>) @@
    ("zs" :> <<"z">>) @@
    ("cape" :> <<"cape", "p79.162", "p80.162">>) @@
    ("cisst" :> <<"siconc", "sst", "skt">>) @@
    ("sfc" :> <<"z", "sp", "tcwv", "msl", "tcc", "u10", "v10", "t2m", "d2m",
                "lcc", "mcc", "hcc", "u100", "v100">>) @@
    ("tcol" :> <<"tclw", "tciw", "tcw", "tcwv", "tcrw", "tcsw">>) @@
    ("soil_depthBelowLandLayer_istl1" :> <<"istl1">>) @@
    ("soil_depthBelowLandLayer_istl2" :> <<"istl2">>) @@
    ("soil_depthBelowLandLayer_istl3" :> <<"istl3">>) @@
    ("soil_depthBelowLandLayer_istl4" :> <<"istl4">>) @@
    ("soil_depthBelowLandLayer_stl1" :> <<"stl1">>) @@
    ("soil_depthBelowLandLayer_stl2" :> <<"stl2">>) @@
    ("soil_depthBelowLandLayer_stl3" :> <<"stl3">>) @@
    ("soil_depthBelowLandLayer_stl4" :> <<"stl4">>) @@
    ("soil_depthBelowLandLayer_swvl1" :> <<"swvl1">>) @@
    ("soil_depthBelowLandLayer_swvl2" :> <<"swvl2">>) @@
    ("soil_depthBelowLandLayer_swvl3" :> <<"swvl3">>) @@
    ("soil_depthBelowLandLayer_swvl4" :> <<"swvl4">>) @@
    ("soil_surface_tsn" :> <<"tsn">>) @@
    ("rad" :> <<"ssrd", "strd", "str", "ttr", "gwd">>) @@
    ("pcp_surface_cp" :> <<"cp">>) @@
    ("pcp_surface_crr" :> <<"crr">>) @@
    ("pcp_surface_csf" :> <<"csf">>) @@
    ("pcp_surface_csfr" :> <<"csfr">>) @@
    ("pcp_surface_es" :> <<"es">>) @@
    ("pcp_surface_lsf" :> <<"lsf">>) @@
    ("pcp_surface_lsp" :> <<"lsp">>) @@
    ("pcp_surface_lspf" :> <<"lspf">>) @@
    ("pcp_surface_lsrr" :> <<"lsrr">>) @@
    ("pcp_surface_lssfr" :> <<"lssfr">>) @@
    ("pcp_surface_ptype" :> <<"ptype">>) @@
    ("pcp_surface_rsn" :> <<"rsn">>) @@
    ("pcp_surface_sd" :> <<"sd">>) @@
    ("pcp_surface_sf" :> <<"sf">>) @@
    ("pcp_surface_smlt" :> <<"smlt">>) @@
    ("pcp_surface_tp" :> <<"tp">>)

(* the stores with the soil and pcp datasets listed as they are before    *)
(* they are split by variable *)
CO_FILES_MAPPING_unsplit ==
    ("model-level-moisture" :> <<"o3q", "qrqs">>) @@
    ("model-level-wind" :> <<"dve", "tw">>) @@
    ("single-level-forecast" :> <<"rad", "pcp">>) @@
    ("single-level-reanalysis" :> <<"cape", "cisst", "sfc", "tcol", "soil">>) @@
    ("single-level-surface" :> <<"lnsp", "zs">>)

(* The groups of each CO store, ingest_data_in_zarr.py:23-47 *)
CO_FILES_MAPPING ==
    ("model-level-moisture" :> <<"o3q", "qrqs">>) @@
    ("model-level-wind" :> <<"dve", "tw">>) @@
    ("single-level-forecast" :>
        <<"rad", "pcp_surface_cp", "pcp_surface_crr", "pcp_surface_csf",
          "pcp_surface_csfr", "pcp_surface_es", "pcp_surface_lsf",
          "pcp_surface_lsp", "pcp_surface_lspf", "pcp_surface_lsrr",
          "pcp_surface_lssfr", "pcp_surface_ptype", "pcp_surface_rsn",
          "pcp_surface_sd", "pcp_surface_sf", "pcp_surface_smlt",
          "pcp_surface_tp">>) @@
    ("single-level-reanalysis" :>
        <<"cape", "cisst", "sfc", "tcol",
          "soil_depthBelowLandLayer_istl1", "soil_depthBelowLandLayer_istl2",
          "soil_depthBelowLandLayer_istl3", "soil_depthBelowLandLayer_istl4",
          "soil_depthBelowLandLayer_stl1", "soil_depthBelowLandLayer_stl2",
          "soil_depthBelowLandLayer_stl3", "soil_depthBelowLandLayer_stl4",
          "soil_depthBelowLandLayer_swvl1", "soil_depthBelowLandLayer_swvl2",
          "soil_depthBelowLandLayer_swvl3", "soil_depthBelowLandLayer_swvl4",
          "soil_surface_tsn">>) @@
    ("single-level-surface" :> <<"lnsp", "zs">>)

-----------------------------------------------------------------------------
(* Token strings *)

DigitChars == <<"0", "1", "2", "3", "4", "5", "6", "7", "8", "9">>

IsDigit(c) == \E i \in 1..10 : DigitChars[i] = c

\* int() of one decimal digit
DigitVal(c) == (CHOOSE i \in 1..10 : DigitChars[i] = c) - 1

\* the character of s at 1-based position i, "" past the end
At(s, i) == IF i \in 1..Len(s) THEN s[i] ELSE ""

RECURSIVE Join(_)
\* "".join(tokens)
Join(s) == IF s = <<>> THEN "" ELSE Head(s) \o Join(Tail(s))

RECURSIVE Digits(_)
\* str(n) for n >= 0, one token per digit
Digits(n) == IF n < 10 THEN <<DigitChars[n + 1]>>
             ELSE Digits(n \div 10) \o <<DigitChars[(n % 10) + 1]>>

RECURSIVE ZeroPad(_, _)
ZeroPad(s, width) == IF Len(s) >= width THEN s ELSE ZeroPad(<<"0">> \o s, width)

\* f"{n:04d}" and f"{n:02d}" of make_path
Fmt04d(n) == ZeroPad(Digits(n), 4)
Fmt02d(n) == ZeroPad(Digits(n), 2)

\* the positions of token t in s
Positions(s, t) == {i \in 1..Len(s) : s[i] = t}

Max(S) == CHOOSE x \in S : \A y \in S : y <= x

-----------------------------------------------------------------------------
(* Calendar arithmetic of datetime and calendar, as used at                *)
(* update_co.py:94-97 *)

\* calendar.isleap / datetime._is_leap
isleap(year) == year % 4 = 0 /\ (year % 100 # 0 \/ year % 400 = 0)

\* calendar.mdays / datetime._DAYS_IN_MONTH
mdays == <<31, 28, 31, 30, 31, 30, 31, 31, 30, 31, 30, 31>>

\* monthrange without the leap day: February has 28 days in every year
monthrange_noleap(year, month) == mdays[month]

\* calendar.monthrange(year, month)[1]
monthrange(year, month) ==
    mdays[month] + (IF month = 2 /\ isleap(year) THEN 1 ELSE 0)

\* the Julian count: every fourth year is a leap year, the century years too
days_before_year_julian(year) ==
    LET y == year - 1
    IN  y * 365 + (y \div 4)

\* datetime._days_before_year: days before January 1st of year
days_before_year(year) ==
    LET y == year - 1
    IN  y * 365 + (y \div 4) - (y \div 100) + (y \div 400)

RECURSIVE days_before_month(_, _)
\* datetime._days_before_month: days of the year before the first of month
days_before_month(year, month) ==
    IF month = 1 THEN 0
    ELSE days_before_month(year, month - 1) + monthrange(year, month - 1)

\* the ordinal of the first day of the month: the day is left out
toordinal_noday(dt) ==
    days_before_year(dt.year) + days_before_month(dt.year, dt.month) + 1

\* datetime.toordinal()
toordinal(dt) ==
    days_before_year(dt.year) + days_before_month(dt.year, dt.month) + dt.day

-----------------------------------------------------------------------------
(* datetime.strptime, for the two formats the code uses.  The format is    *)
(* compiled to a regular expression that need not match to the end:        *)
(*   %Y  \d\d\d\d                                                          *)
(*   %m  1[0-2] | 0[1-9] | [1-9]                                           *)
(*   %d  3[01] | [12]\d | 0[1-9] | [1-9]                                   *)
(* the first match in backtracking order is taken, and a match that        *)
(* leaves text over, or a day the month does not have, is a ValueError.    *)

ParseError == [ok |-> FALSE, error |-> "ValueError"]

NonZero(c) == IsDigit(c) /\ c # "0"

\* the alternatives of %m at position p, in the order the regex tries them
MonthAlts(s, p) ==
    (IF At(s, p) = "1" /\ At(s, p + 1) \in {"0", "1", "2"}
        THEN <<[v |-> 10 + DigitVal(At(s, p + 1)), nxt |-> p + 2]>> ELSE <<>>)
    \o (IF At(s, p) = "0" /\ NonZero(At(s, p + 1))
        THEN <<[v |-> DigitVal(At(s, p + 1)), nxt |-> p + 2]>> ELSE <<>>)
    \o (IF NonZero(At(s, p))
        THEN <<[v |-> DigitVal(At(s, p)), nxt |-> p + 1]>> ELSE <<>>)

\* the alternatives of %d at position p, in the order the regex tries them
DayAlts(s, p) ==
    (IF At(s, p) = "3" /\ At(s, p + 1) \in {"0", "1"}
        THEN <<[v |-> 30 + DigitVal(At(s, p + 1)), nxt |-> p + 2]>> ELSE <<>>)
    \o (IF At(s, p) \in {"1", "2"} /\ IsDigit(At(s, p + 1))
        THEN <<[v |-> 10 * DigitVal(At(s, p)) + DigitVal(At(s, p + 1)),
                nxt |-> p + 2]>> ELSE <<>>)
    \o (IF At(s, p) = "0" /\ NonZero(At(s, p + 1))
        THEN <<[v |-> DigitVal(At(s, p + 1)), nxt |-> p + 2]>> ELSE <<>>)
    \o (IF NonZero(At(s, p))
        THEN <<[v |-> DigitVal(At(s, p)), nxt |-> p + 1]>> ELSE <<>>)

\* the literal text sep of the format at position p: the position after it,
\* or 0 when the text is not there
Literal(s, p, sep) ==
    IF \A i \in 1..Len(sep) : At(s, p + i - 1) = sep[i] THEN p + Len(sep) ELSE 0

RECURSIVE FirstMatch(_, _, _)
\* the first alternative of %m after which the rest of the format matches
FirstMatch(s, malts, sep) ==
    IF malts = <<>> THEN [found |-> FALSE]
    ELSE LET m == Head(malts)
             q == Literal(s, m.nxt, sep)
             dalts == IF q = 0 THEN <<>> ELSE DayAlts(s, q)
         IN  IF dalts # <<>>
             THEN [found |-> TRUE, month |-> m.v, day |-> dalts[1].v,
                   end |-> dalts[1].nxt]
             ELSE FirstMatch(s, Tail(malts), sep)

\* datetime.datetime.strptime(s, "%Y" + sep + "%m" + sep + "%d")
strptime(s, sep) ==
    IF ~ \A i \in 1..4 : IsDigit(At(s, i)) THEN ParseError
    ELSE LET year == 1000 * DigitVal(s[1]) + 100 * DigitVal(s[2])
                     + 10 * DigitVal(s[3]) + DigitVal(s[4])
             p == Literal(s, 5, sep)
             f == IF p = 0 THEN [found |-> FALSE]
                  ELSE FirstMatch(s, MonthAlts(s, p), sep)
         IN  IF ~ f.found THEN ParseError
             ELSE IF f.end # Len(s) + 1 THEN ParseError
             ELSE IF year < 1 \/ f.day > monthrange(year, f.month) THEN ParseError
             ELSE [ok |-> TRUE, year |-> year, month |-> f.month, day |-> f.day]

\* update_co.py:58-59, with format '%Y%m%d' (sep empty) or the default
\* '%Y-%m-%d' (sep "-")
convert_to_date(date_str, sep) == strptime(date_str, sep)

-----------------------------------------------------------------------------
(* str methods on token strings *)

\* s.rsplit(t, 1): <<s>> when t is not in s, else <<before, after>> the last t
rsplit1(s, t) ==
    IF Positions(s, t) = {} THEN <<s>>
    ELSE LET i == Max(Positions(s, t))
         IN  <<SubSeq(s, 1, i - 1), SubSeq(s, i + 1, Len(s))>>

RECURSIVE split(_, _)
\* s.split(t)
split(s, t) ==
    IF Positions(s, t) = {} THEN <<s>>
    ELSE LET i == Max(Positions(s, t))
         IN  split(SubSeq(s, 1, i - 1), t) \o <<SubSeq(s, i + 1, Len(s))>>

RECURSIVE replace(_, _, _)
\* s.replace(old, new), old not empty
replace(s, old, new) ==
    IF Len(s) < Len(old) THEN s
    ELSE IF SubSeq(s, 1, Len(old)) = old
         THEN new \o replace(SubSeq(s, Len(old) + 1, Len(s)), old, new)
         ELSE <<Head(s)>> \o replace(Tail(s), old, new)

-----------------------------------------------------------------------------
(* GenerateOffset.apply, update_co.py:86-98.  The result is the tuple      *)
(* (url, slice(start, end), variables), or the exception raised.           *)

Raise(e) == [done |-> TRUE, ok |-> FALSE, error |-> e]

\* an element the stage has not mapped yet
Pending == [done |-> FALSE]

\* update_co.py:96: start = days_diff.days * self.timestamps_per_file
StartOffset(self, start_date, init) ==
    (toordinal(start_date) - toordinal(init)) * self.timestamps_per_file

\* an end that takes every month for thirty days
EndOffset_30(self, start, start_date) ==
    start + self.timestamps_per_file * (IF self.is_single_level THEN 30 ELSE 1)

\* update_co.py:97: end = start + self.timestamps_per_file * (days of month | 1)
EndOffset(self, start, start_date) ==
    start + self.timestamps_per_file *
        (IF self.is_single_level
            THEN monthrange(start_date.year, start_date.month) ELSE 1)

\* a reduction that keeps only the name of the dataset that was split
ChunkKey_base(chunk) ==
    IF Positions(chunk, "_") # {} THEN split(chunk, ".")[1]
    ELSE chunk

\* update_co.py:90-91: the chunk name with the marker of a split file removed
ChunkKey(chunk) ==
    IF Positions(chunk, "_") # {} THEN replace(chunk, <<".", "grb2", "_">>, <<"_">>)
    ELSE chunk

\* update_co.py:92-93
IntDate(self, int_date) ==
    IF self.is_single_level THEN int_date \o <<"0", "1">> ELSE int_date

\* d.get(key, []): a lookup that gives the empty list for a key d has not
getitem_default(d, key) ==
    [ok |-> TRUE, value |-> IF key \in DOMAIN d THEN d[key] ELSE <<>>]

\* d[key] of a dict: the value, or KeyError for a key d has not
\* (variable_dict[chunk], update_co.py:98; CO_FILES_MAPPING[...],
\* ingest_data_in_zarr.py:82)
getitem(d, key) ==
    IF key \in DOMAIN d THEN [ok |-> TRUE, value |-> d[key]]
    ELSE [ok |-> FALSE, error |-> "KeyError"]

GenerateOffset_apply(self, url) ==
    LET parts == rsplit1(url, "/")
    IN  IF Len(parts) < 2 THEN Raise("IndexError")
        ELSE
        LET file_name == rsplit1(parts[2], ".")[1]
            fields == split(file_name, "_hres_")
        IN  IF Len(fields) # 2 THEN Raise("ValueError")
            ELSE
            LET chunk == ChunkKey(fields[2])
                start_date == convert_to_date(IntDate(self, fields[1]), <<>>)
                init == convert_to_date(self.init_date, <<"-">>)
            IN  IF ~ start_date.ok \/ ~ init.ok THEN Raise("ValueError")
                ELSE
                LET start == StartOffset(self, start_date, init)
                    end == EndOffset(self, start, start_date)
                    found == getitem(variable_dict, Join(chunk))
                IN  IF ~ found.ok THEN Raise(found.error)
                    ELSE [done |-> TRUE, ok |-> TRUE, url |-> url,
                          region |-> [start |-> start, stop |-> end],
                          vars |-> found.value]

-----------------------------------------------------------------------------
(* The urls of the shards *)

\* the chunk names as Python sees them, character by character: the words
\* of a name and the "_" between them
SplitNames ==
    {<<b, "_", l, "_", v>> : b \in {"soil", "pcp"},
                             l \in {"depthBelowLandLayer", "surface"},
                             v \in {variable_dict[k][1] : k \in DOMAIN variable_dict}}

PlainNames == {<<k>> : k \in {"dve", "tw", "o3q", "qrqs", "lnsp", "zs", "cape",
                              "cisst", "sfc", "tcol", "rad", "soil", "pcp"}}

\* the token string of a chunk name
Tokens(name) == CHOOSE t \in PlainNames \cup SplitNames : Join(t) = name

RootPath == <<"gs:", "/", "/", "gcp-public-data-arco-era5", "/", "raw", "/",
              "ERA5GRIB", "/", "HRES", "/">>

\* single-levels-to-zarr.py:108-141: the url of the month file of a chunk
make_path(time, chunk) ==
    LET dir == RootPath \o <<"Month", "/">> \o Fmt04d(time.year) \o <<"/">>
        month == Fmt04d(time.year) \o Fmt02d(time.month)
    IN  IF Positions(chunk, "_") # {}
        THEN LET parts == split(chunk, "_")
             IN  dir \o month \o <<"_hres_">> \o parts[1] \o <<".", "grb2", "_">>
                     \o parts[2] \o <<"_">> \o parts[3] \o <<".", "grib">>
        ELSE dir \o month \o <<"_hres_">> \o chunk \o <<".", "grb2">>

\* the url of a day file: the date of its name is the '%Y%m%d' that
\* update_co.py:94 reads when is_single_level is false
make_day_path(time, chunk) ==
    RootPath \o <<"Daily", "/">> \o Fmt04d(time.year) \o <<"/">>
        \o Fmt04d(time.year) \o Fmt02d(time.month) \o Fmt02d(time.day)
        \o <<"_hres_">> \o chunk \o <<".", "grb2">>

\* the url of a shard: a month file or a day file
ShardUrl(shard) ==
    IF shard.form = "month" THEN make_path(shard.time, Tokens(shard.chunk))
    ELSE make_day_path(shard.time, Tokens(shard.chunk))

\* str(date) of an epoch, the --init_date argument
IsoDate(year, month, day) ==
    Fmt04d(year) \o <<"-">> \o Fmt02d(month) \o <<"-">> \o Fmt02d(day)

\* no GenerateOffset stage and no UpdateSlice stage runs
StagesIdle ==
    /\ gen = "none" /\ pcoll = <<>> /\ offsets = <<>> /\ shards = <<>>
    /\ target = "none" /\ units = <<>> /\ tmpfiles = {} /\ zarr = <<>>

\* ingest_data_in_zarr_dataflow_job is not called
NoJob == [called |-> FALSE]

JobIdle == job = NoJob

\* the driver does not run
DriverIdle ==
    /\ dpc = "none" /\ data_is_missing = FALSE /\ present = {}
    /\ verified = <<>> /\ cycles = 0 /\ sinceCheck = <<>>
    /\ splits = <<>> /\ pool = <<>>

-----------------------------------------------------------------------------
(* The inputs of the GenerateOffset stage *)

RecentYears == 2023 .. (2022 + NumYears)

\* the years of the shards: the recent ones, a century year that is no leap
\* year and one that is
ShardYears == {1900, 2000} \cup RecentYears

\* the days of a month the day files are drawn from: first, middle, last
SampleDays(year, month) == {1, 15, monthrange(year, month)}

Times(years) ==
    {[year |-> y, month |-> m, day |-> d] :
        y \in years, m \in 1..12, d \in {1, 15, 28, 29, 30, 31}}

\* a month file is of the first day of its month (pd.date_range(freq="MS"),
\* single-levels-to-zarr.py:164-169); a day file is of any of the sampled days
ShardsOf(years, chunks) ==
    {[time |-> t, chunk |-> c, form |-> f] :
        t \in {x \in Times(years) : x.day \in SampleDays(x.year, x.month)},
        c \in chunks, f \in {"month", "day"}}

ValidShard(sh) == sh.form = "day" \/ sh.time.day = 1

\* time_per_day of ingest_data_in_zarr.py:84 (2 or 24), and 1
TimestampsPerFile == {1, 2, 24}

\* --init_date: the default of update_co.py:82, and a day inside the recent years
InitDates == {IsoDate(1900, 1, 1), IsoDate(2023, 3, 15)}

Generators ==
    [init_date : InitDates, timestamps_per_file : TimestampsPerFile,
     is_single_level : BOOLEAN]

\* a date as one number that orders dates as the calendar does
DateKey(t) == (t.year * 100 + t.month) * 100 + t.day

\* one shard of any year, or two shards of one chunk and one form of the
\* recent years, the earlier first
OffsetInputs ==
    {<<sh>> : sh \in {x \in ShardsOf(ShardYears, {"sfc", "soil_surface_tsn", "dve"}) :
                        ValidShard(x)}}
    \cup
    {<<a, b>> : a, b \in {x \in ShardsOf(RecentYears, {"sfc"}) : ValidShard(x)}}

OffsetInit ==
    /\ gen \in Generators
    /\ shards \in {p \in OffsetInputs :
                     Len(p) = 2 => /\ p[1].form = p[2].form
                                   /\ DateKey(p[1].time) < DateKey(p[2].time)}
    /\ pcoll = [i \in 1..Len(shards) |-> ShardUrl(shards[i])]
    /\ offsets = [i \in 1..Len(shards) |-> Pending]
    /\ target = "none" /\ units = <<>> /\ tmpfiles = {} /\ zarr = <<>>
    /\ DriverIdle
    /\ JobIdle

\* beam.Map(self.apply) of GenerateOffset.expand, update_co.py:100-101: one
\* element of the PCollection is mapped
GenerateOffset_expand(i) ==
    /\ offsets[i] = Pending
    /\ offsets' = [offsets EXCEPT ![i] = GenerateOffset_apply(gen, pcoll[i])]
    /\ UNCHANGED <<gen, pcoll, shards>>
    /\ UNCHANGED ingestVars
    /\ UNCHANGED driverVars
    /\ UNCHANGED jobVars

OffsetNext == \E i \in 1..Len(pcoll) : GenerateOffset_expand(i)

OffsetSpec == OffsetInit /\ [][OffsetNext]_vars

-----------------------------------------------------------------------------
(* One Dataflow job of ingest_data_in_zarr_dataflow_job for a CO store:    *)
(* the urls of its chunks and dates | GenerateOffset | UpdateSlice(target) *)

\* -c chunks of ingest_data_in_zarr.py:82-83, cut to the first MaxChunks
JobChunks(store) ==
    LET all == CO_FILES_MAPPING[store]
    IN  {all[i] : i \in 1..(IF Len(all) < MaxChunks THEN Len(all) ELSE MaxChunks)}

\* ingest_data_in_zarr.py:84
time_per_day(store) == IF store = "single-level-forecast" THEN 2 ELSE 24

\* the first day of the next month: the step of pd.date_range(freq="MS"),
\* single-levels-to-zarr.py:164-169
NextMonth(t) ==
    IF t.month = 12 THEN [year |-> t.year + 1, month |-> 1, day |-> 1]
    ELSE [year |-> t.year, month |-> t.month + 1, day |-> 1]

\* the next day
NextDay(t) ==
    IF t.day < monthrange(t.year, t.month) THEN [t EXCEPT !.day = t.day + 1]
    ELSE NextMonth(t)

RECURSIVE DateRange(_, _, _)
\* n consecutive months (form "month") or days from t on
DateRange(t, form, n) ==
    IF n = 0 THEN {}
    ELSE {t} \cup DateRange(IF form = "month" THEN NextMonth(t) ELSE NextDay(t),
                            form, n - 1)

\* the range starts in February 2024: on the first for month files, on the
\* last for day files
JobDates(form) ==
    IF form = "month" THEN DateRange([year |-> 2024, month |-> 2, day |-> 1], form, RangeLen)
    ELSE DateRange([year |-> 2024, month |-> 2, day |-> 29], form, RangeLen)

JobShards(store, form) ==
    {[time |-> t, chunk |-> c, form |-> form] :
        t \in JobDates(form), c \in JobChunks(store)}

\* an order on the shards of the job (by date, then by the place of the group
\* in the store's list), to draw each pair once
Before(a, b) ==
    \/ DateKey(a.time) < DateKey(b.time)
    \/ /\ a.time = b.time
       /\ \E i, j \in 1..17 : /\ i < j
                              /\ i <= Len(CO_FILES_MAPPING[target])
                              /\ j <= Len(CO_FILES_MAPPING[target])
                              /\ CO_FILES_MAPPING[target][i] = a.chunk
                              /\ CO_FILES_MAPPING[target][j] = b.chunk

\* UpdateSlice.apply has not been called for the element yet; its locals
\* (the copy's end, the dataset, the loop index) exist while it runs
Idle == [pc |-> "idle", copied |-> "no", ds |-> "none", k |-> 0]

\* the variables of the store: those of the groups it is made of
StoreVars(store) ==
    UNION {{variable_dict[c][i] : i \in 1..Len(variable_dict[c])} :
              c \in {CO_FILES_MAPPING[store][j] : j \in 1..Len(CO_FILES_MAPPING[store])}}

IngestInit ==
    /\ target \in DOMAIN CO_FILES_MAPPING
    /\ gen \in {g \in Generators :
                  /\ g.timestamps_per_file = time_per_day(target)
                  /\ g.init_date = IsoDate(1900, 1, 1)}
    /\ \E form \in {"month", "day"} :
          /\ (form = "month") <=> gen.is_single_level
          /\ shards \in {<<a, b>> : a, b \in JobShards(target, form)}
    /\ Before(shards[1], shards[2])
    /\ pcoll = [i \in 1..Len(shards) |-> ShardUrl(shards[i])]
    /\ offsets = [i \in 1..Len(shards) |-> Pending]
    /\ units = [i \in 1..Len(shards) |-> Idle]
    /\ tmpfiles = {}
    /\ zarr = [v \in StoreVars(target) |-> {}]
    /\ DriverIdle
    /\ JobIdle

\* zv.append(values): the values are put after the last position written
SetRegion_append(array, region, values) ==
    LET end == Max({r.stop : r \in array} \cup {0})
    IN  array \cup {[start |-> end, stop |-> end + (region.stop - region.start),
                     origin |-> end, values |-> values]}

\* zv[:] = values: the array is replaced by the values written
SetRegion_whole(array, region, values) ==
    {[start |-> region.start, stop |-> region.stop,
      origin |-> region.start, values |-> values]}

\* zv[region] = values, update_co.py:118, on an array kept as the set of the
\* stretches written so far: each stretch is positions [start, stop) holding
\* the values of one source from index start - origin on.  What the new
\* region covers of an older stretch is replaced; the rest of it stays.
SetRegion(array, region, values) ==
    LET left(r) == [r EXCEPT !.stop = IF r.stop < region.start THEN r.stop
                                       ELSE region.start]
        right(r) == [r EXCEPT !.start = IF r.start > region.stop THEN r.start
                                         ELSE region.stop]
    IN  {left(r) : r \in {x \in array : x.start < region.start}}
        \cup {right(r) : r \in {x \in array : x.stop > region.stop}}
        \cup {[start |-> region.start, stop |-> region.stop,
                origin |-> region.start, values |-> values]}

\* the name tempfile.NamedTemporaryFile gives the file of element i: a fresh
\* name for each call
TmpName(i) == <<"tmp", i>>

\* a release without the with statement: the file is deleted only when the
\* block ends normally
opener_exit_leak(files, i, raised) ==
    IF raised THEN files ELSE files \ {TmpName(i)}

\* __exit__ of the NamedTemporaryFile of opener, update_co.py:73: the file is
\* closed and deleted, however the with block is left
opener_exit(files, i, raised) == files \ {TmpName(i)}

\* copy, update_co.py:61-68: what the caller sees for each end of the gcloud
\* subprocess: a CalledProcessError is logged and copy returns; any other
\* exception of subprocess.run is not caught
copy(outcome) ==
    CASE outcome = "ok" -> "returned"
      [] outcome = "CalledProcessError" -> "returned"
      [] OTHER -> "raised"

\* a unit that takes back what it has written when it fails
Unwind_rollback(i, pc) ==
    /\ units' = [units EXCEPT ![i] = [Idle EXCEPT !.pc = pc]]
    /\ tmpfiles' = opener_exit(tmpfiles, i, TRUE)
    /\ zarr' = [v \in DOMAIN zarr |-> {r \in zarr[v] : r.values[1] # shards[i]}]
    /\ UNCHANGED target
    /\ UNCHANGED offsetVars
    /\ UNCHANGED driverVars
    /\ UNCHANGED jobVars

\* UpdateSlice.apply leaves through an exception: the with block of opener,
\* if entered, deletes the file
Unwind(i, pc) ==
    /\ units' = [units EXCEPT ![i] = [Idle EXCEPT !.pc = pc]]
    /\ tmpfiles' = opener_exit(tmpfiles, i, TRUE)
    /\ UNCHANGED <<zarr, target>>
    /\ UNCHANGED offsetVars
    /\ UNCHANGED driverVars
    /\ UNCHANGED jobVars

\* update_co.py:110-111: the element is unpacked and the store opened
US_open_target(i) ==
    /\ units[i].pc = "idle"
    /\ offsets[i].done /\ offsets[i].ok
    /\ \/ /\ units' = [units EXCEPT ![i].pc = "opener"]
          /\ UNCHANGED <<tmpfiles, zarr, target>>
          /\ UNCHANGED offsetVars
          /\ UNCHANGED driverVars
          /\ UNCHANGED jobVars
       \/ Unwind(i, "failed")

\* update_co.py:72-75: opener creates the temporary file
opener_enter(i) ==
    /\ units[i].pc = "opener"
    /\ units' = [units EXCEPT ![i].pc = "copy"]
    /\ tmpfiles' = tmpfiles \cup {TmpName(i)}
    /\ UNCHANGED <<zarr, target>>
    /\ UNCHANGED offsetVars
    /\ UNCHANGED driverVars
    /\ UNCHANGED jobVars

\* update_co.py:76-77: opener copies the shard and yields the file name
opener_copy(i) ==
    /\ units[i].pc = "copy"
    /\ \E outcome \in {"ok", "CalledProcessError", "OSError"} :
          IF copy(outcome) = "returned"
          THEN /\ units' = [units EXCEPT ![i].pc = "yielded",
                                         ![i].copied = IF outcome = "ok" THEN "yes" ELSE "failed"]
               /\ UNCHANGED <<tmpfiles, zarr, target>>
               /\ UNCHANGED offsetVars
               /\ UNCHANGED driverVars
               /\ UNCHANGED jobVars
          ELSE Unwind(i, "failed")

\* update_co.py:113-114: xr.open_dataset(file, engine='cfgrib'); of a file the
\* copy left empty the decoder raises or finds no variable
US_open_dataset(i) ==
    /\ units[i].pc = "yielded"
    /\ \/ /\ units' = [units EXCEPT ![i].pc = "writing", ![i].k = 1,
                                    ![i].ds = IF units[i].copied = "yes"
                                              THEN "decoded" ELSE "empty"]
          /\ UNCHANGED <<tmpfiles, zarr, target>>
          /\ UNCHANGED offsetVars
          /\ UNCHANGED driverVars
          /\ UNCHANGED jobVars
       \/ Unwind(i, "failed")

\* update_co.py:115-119: one turn of the loop: zv = zf[vname];
\* zv[region] = ds[vname].values
US_write(i) ==
    /\ units[i].pc = "writing"
    /\ units[i].k <= Len(offsets[i].vars)
    /\ LET vname == offsets[i].vars[units[i].k]
       IN  \/ /\ units[i].ds = "decoded"
              /\ vname \in DOMAIN zarr
              /\ zarr' = [zarr EXCEPT ![vname] =
                            SetRegion(@, offsets[i].region, <<shards[i], vname>>)]
              /\ units' = [units EXCEPT ![i].k = @ + 1]
              /\ UNCHANGED <<tmpfiles, target>>
              /\ UNCHANGED offsetVars
              /\ UNCHANGED driverVars
              /\ UNCHANGED jobVars
           \/ Unwind(i, "failed")

\* update_co.py:120-122: the loop is over; the with block is left
US_finish(i) ==
    /\ units[i].pc = "writing"
    /\ units[i].k > Len(offsets[i].vars)
    /\ units' = [units EXCEPT ![i] = [Idle EXCEPT !.pc = "done"]]
    /\ tmpfiles' = opener_exit(tmpfiles, i, FALSE)
    /\ UNCHANGED <<zarr, target>>
    /\ UNCHANGED offsetVars
    /\ UNCHANGED driverVars
    /\ UNCHANGED jobVars

InFlight(i) == units[i].pc \in {"opener", "copy", "yielded", "writing"}

\* the worker cancels the element: an exception is raised where apply stands
US_cancel(i) ==
    /\ InFlight(i)
    /\ Unwind(i, "cancelled")

Elements == 1..Len(pcoll)

IngestNext ==
    \/ \E i \in Elements : GenerateOffset_expand(i)
    \/ \E i \in Elements : US_open_target(i)
    \/ \E i \in Elements : opener_enter(i)
    \/ \E i \in Elements : opener_copy(i)
    \/ \E i \in Elements : US_open_dataset(i)
    \/ \E i \in Elements : US_write(i)
    \/ \E i \in Elements : US_finish(i)
    \/ \E i \in Elements : US_cancel(i)

IngestSpec == IngestInit /\ [][IngestNext]_vars

-----------------------------------------------------------------------------
(* The calendar the claims refer to: the Gregorian rule and the lengths of *)
(* the months, stated without the code's arithmetic.                       *)

GregorianLeap(y) ==
    IF y % 400 = 0 THEN TRUE ELSE IF y % 100 = 0 THEN FALSE ELSE y % 4 = 0

CalendarDays(y, m) ==
    IF m = 2 THEN (IF GregorianLeap(y) THEN 29 ELSE 28)
    ELSE IF m \in {4, 6, 9, 11} THEN 30 ELSE 31

\* the days of the years 1900 .. y - 1: 365 each, and one more for each leap year
YearsSince1900(y) ==
    365 * (y - 1900) + Cardinality({x \in 1900..(y - 1) : GregorianLeap(x)})

RECURSIVE MonthsBefore(_, _)
\* the days of the months 1 .. m - 1 of year y, counted month by month
MonthsBefore(y, m) ==
    IF m <= 1 THEN 0 ELSE MonthsBefore(y, m - 1) + CalendarDays(y, m - 1)

\* the days from 1900-01-01 to the date t
DaysSince1900(t) ==
    YearsSince1900(t.year) + MonthsBefore(t.year, t.month) + (t.day - 1)

DaysBetween(a, b) == DaysSince1900(b) - DaysSince1900(a)

\* the epoch that the init_date of the stage spells
EpochOf(self) ==
    CHOOSE e \in {[year |-> 1900, month |-> 1, day |-> 1],
                  [year |-> 2023, month |-> 3, day |-> 15]} :
        IsoDate(e.year, e.month, e.day) = self.init_date

\* the date of a shard: of a month file, the first day of its month
ShardDate(sh) ==
    IF sh.form = "month" THEN [sh.time EXCEPT !.day = 1] ELSE sh.time

\* the name of the shard has the form its stage reads: a month file under
\* is_single_level, a day file otherwise
FormMatches(sh) == (sh.form = "month") <=> gen.is_single_level

Returned(i) == offsets[i].done /\ offsets[i].ok

RegionLength(i) == offsets[i].region.stop - offsets[i].region.start

\* C1: every region that GenerateOffset.apply returns has length
\* timestamps_per_file * day_count, where day_count is 1 when is_single_level
\* is false and the calendar length of the shard's month when it is true;
\* with 2 timestamps per file the month file of 2024-02 gets 58 positions
\* and that of 2023-02 gets 56.
C1_RegionLength ==
    \A i \in 1..Len(shards) :
        /\ Returned(i) =>
              RegionLength(i) = gen.timestamps_per_file *
                  (IF gen.is_single_level
                      THEN CalendarDays(shards[i].time.year, shards[i].time.month)
                      ELSE 1)
        /\ ( /\ offsets[i].done
             /\ gen.is_single_level /\ gen.timestamps_per_file = 2
             /\ shards[i].form = "month" /\ shards[i].time.month = 2
             /\ shards[i].time.year \in {2023, 2024} ) =>
              /\ offsets[i].ok
              /\ RegionLength(i) = IF shards[i].time.year = 2024 THEN 58 ELSE 56

C1_Witness ==
    \E i \in 1..Len(shards) :
        /\ Returned(i) /\ gen.is_single_level /\ gen.timestamps_per_file = 2
        /\ shards[i].time = [year |-> 2024, month |-> 2, day |-> 1]
        /\ RegionLength(i) = 58

C4_StartIncreasing ==
    ( /\ Len(shards) = 2
      /\ Returned(1) /\ Returned(2)
      /\ shards[1].chunk = shards[2].chunk
      /\ gen.timestamps_per_file >= 1
      /\ DateKey(ShardDate(shards[1])) < DateKey(ShardDate(shards[2])) ) =>
        offsets[1].region.start < offsets[2].region.start

C4_Witness ==
    /\ Len(shards) = 2
    /\ Returned(1) /\ Returned(2)
    /\ shards[1].form = "day"
    /\ shards[1].time = [year |-> 2023, month |-> 2, day |-> 28]
    /\ shards[2].time = [year |-> 2023, month |-> 3, day |-> 1]
    /\ offsets[1].region.start < offsets[2].region.start

-----------------------------------------------------------------------------
(* Claims on the UpdateSlice stage *)

VarSet(i) == {offsets[i].vars[n] : n \in 1..Len(offsets[i].vars)}

\* two elements write a common position of a common variable
WritesOverlap(i, j) ==
    /\ VarSet(i) \cap VarSet(j) # {}
    /\ offsets[i].region.start < offsets[j].region.stop
    /\ offsets[j].region.start < offsets[i].region.stop

\* C3: two distinct (group, date) units of one job never write the same
\* position of the same variable: no two units that run at the same time
\* have a variable in common with intersecting regions.
C3_DisjointWrites ==
    \A i, j \in 1..Len(units) :
        (i # j /\ InFlight(i) /\ InFlight(j)) => ~ WritesOverlap(i, j)

\* C9: the temporary file of a unit is deleted on every way out of the unit:
\* a unit that is not inside the with block of opener (not started, done,
\* failed, cancelled) has no temporary file.
C9_TempFileReleased ==
    \A i \in 1..Len(units) : ~ InFlight(i) => TmpName(i) \notin tmpfiles

\* one unit was cancelled and the other failed, each after writing a
\* variable, and no temporary file is left
C9_Witness ==
    /\ Len(units) = 2
    /\ units[1].pc = "cancelled" /\ units[2].pc = "failed"
    /\ \A i \in {1, 2} :
          \E v \in DOMAIN zarr : \E r \in zarr[v] : r.values[1] = shards[i]
    /\ tmpfiles = {}

\* C10: a failed copy is reported to the caller of opener: a unit whose
\* copy failed is never handed the local file, and never goes on to decode
\* and write from it.
C10_CopyFailureSurfaced ==
    \A i \in 1..Len(units) :
        units[i].copied = "failed" => units[i].pc \notin {"yielded", "writing"}

-----------------------------------------------------------------------------
(* The driver: __main__ of raw-to-zarr-to-bq.py, lines 160-213.  A call of *)
(* a function of the arco_era5 package returns or raises; an exception     *)
(* ends the run at the except clause of line 212.                          *)

\* raw-to-zarr-to-bq.py:51
SPLITTING_DATASETS == {"soil", "pcp"}

\* the number of stores in ZARR_FILES_LIST, raw-to-zarr-to-bq.py:52-59
NumZarrFiles == 6

\* zip(ZARR_FILES_LIST, BQ_TABLES_LIST, REGION_LIST), raw-to-zarr-to-bq.py:205-206:
\* as many units as the shortest list has entries
PoolUnits == 1..(IF NumTables < NumZarrFiles THEN NumTables ELSE NumZarrFiles)

\* data_date_range, raw-to-zarr-to-bq.py:165-167: the dates of the month,
\* by their number
data_date_range == 1..NumDates

\* a verifier that leaves out the last date of the range
findMissing_open(range, pres) ==
    {d \in range : d \notin pres /\ \E e \in range : e > d}

\* the dates of the range that the presence test does not find
findMissing(range, pres) == {d \in range : d \notin pres}

\* check_data_availability: whether some date of the range is missing
check_data_availability(range, pres) == findMissing(range, pres) # {}

\* the statement that follows each statement of the try block
AfterConfigure == "download"
AfterDownload(pc) == IF pc = "download" THEN "split" ELSE "re_split"

\* a driver without the availability loop: the pass starts right after the
\* first split
AfterSplit_ingest(pc) == IF pc = "split" THEN "ingest" ELSE "loop"

\* lines 187-192 and 198-199
AfterSplit(pc) == IF pc = "split" THEN "avail_start" ELSE "loop"

\* a loop whose body never runs
LoopContinues_never(missing) == FALSE

\* line 193: while data_is_missing
LoopContinues(missing) == missing

\* a loop body that splits again without downloading again
AfterCheck_nodownload(missing) == IF missing THEN "re_split" ELSE "loop"

\* lines 195-199: if data_is_missing, download and split again
AfterCheck(missing) == IF missing THEN "re_download" ELSE "loop"

Bump(n) == IF n < MaxChecks THEN n + 1 ELSE n

DriverInit ==
    /\ StagesIdle
    /\ JobIdle
    /\ dpc = "configure"
    /\ data_is_missing = FALSE
    /\ present \in SUBSET data_date_range
    /\ verified = <<>>
    /\ cycles = 0
    /\ sinceCheck = <<>>
    /\ splits = [d \in SPLITTING_DATASETS |-> "idle"]
    /\ pool = [u \in PoolUnits |-> "pending"]

\* line 212: except Exception
Except ==
    /\ dpc' = "error"
    /\ UNCHANGED <<data_is_missing, verified, cycles, splits, pool>>

\* lines 162-181: arguments, secrets, config files
configure ==
    /\ dpc = "configure"
    /\ \/ /\ dpc' = AfterConfigure
          /\ UNCHANGED <<data_is_missing, verified, cycles, splits, pool>>
       \/ Except
    /\ UNCHANGED <<present, sinceCheck>>
    /\ UNCHANGED <<offsetVars, ingestVars>>
    /\ UNCHANGED jobVars

\* raw_data_download_dataflow_job, lines 66-78, called at 183 and 197: the
\* job brings none, some or all of the dates that are not there yet
raw_data_download_dataflow_job ==
    /\ dpc \in {"download", "re_download"}
    /\ \E got \in SUBSET data_date_range : present' = present \cup got
    /\ sinceCheck' = Append(sinceCheck, "download")
    /\ \/ /\ dpc' = AfterDownload(dpc)
          /\ cycles' = IF dpc = "re_download" THEN Bump(cycles) ELSE cycles
          /\ UNCHANGED <<data_is_missing, verified, splits, pool>>
       \/ Except
    /\ UNCHANGED <<offsetVars, ingestVars>>
    /\ UNCHANGED jobVars

\* data_splitting_dataflow_job, lines 81-104, called at 187 and 198: the
\* commands are submitted to the pool
split_submit ==
    /\ dpc \in {"split", "re_split"}
    /\ \A d \in SPLITTING_DATASETS : splits[d] = "idle"
    /\ splits' = [d \in SPLITTING_DATASETS |-> "running"]
    /\ sinceCheck' = Append(sinceCheck, "split")
    /\ UNCHANGED <<dpc, data_is_missing, present, verified, cycles, pool>>
    /\ UNCHANGED <<offsetVars, ingestVars>>
    /\ UNCHANGED jobVars

\* line 104: subprocess_run(command) in a pool thread returns or raises; the
\* future keeps the exception
split_run(d) ==
    /\ splits[d] = "running"
    /\ \E end \in {"done", "failed"} : splits' = [splits EXCEPT ![d] = end]
    /\ UNCHANGED <<dpc, data_is_missing, present, verified, cycles, sinceCheck, pool>>
    /\ UNCHANGED <<offsetVars, ingestVars>>
    /\ UNCHANGED jobVars

\* a pool that is left without waiting: shutdown(wait=False)
PoolJoined_nowait(s) == TRUE

\* line 102: the with block of a ThreadPoolExecutor ends with
\* shutdown(wait=True): every command submitted has returned or raised
PoolJoined(s) == \A d \in DOMAIN s : s[d] \in {"done", "failed"}

\* lines 102-104: the with block of the pool ends when every command has
\* ended; the pool and the futures of the commands that ended are dropped
split_return ==
    /\ dpc \in {"split", "re_split"}
    /\ \A d \in SPLITTING_DATASETS : splits[d] # "idle"
    /\ PoolJoined(splits)
    /\ splits' = [d \in SPLITTING_DATASETS |->
                     IF splits[d] \in {"done", "failed"} THEN "idle" ELSE splits[d]]
    /\ dpc' = AfterSplit(dpc)
    /\ UNCHANGED <<data_is_missing, present, verified, cycles, sinceCheck, pool>>
    /\ UNCHANGED <<offsetVars, ingestVars>>
    /\ UNCHANGED jobVars

\* lines 191-192: data_is_missing = True
avail_start ==
    /\ dpc = "avail_start"
    /\ data_is_missing' = TRUE
    /\ dpc' = "loop"
    /\ UNCHANGED <<present, verified, cycles, sinceCheck, splits, pool>>
    /\ UNCHANGED <<offsetVars, ingestVars>>
    /\ UNCHANGED jobVars

\* line 193: the test of the while loop; line 200 when it ends
loop_test ==
    /\ dpc = "loop"
    /\ dpc' = IF LoopContinues(data_is_missing) THEN "check" ELSE "remove_licenses"
    /\ UNCHANGED <<data_is_missing, present, verified, cycles, sinceCheck, splits, pool>>
    /\ UNCHANGED <<offsetVars, ingestVars>>
    /\ UNCHANGED jobVars

\* line 194: data_is_missing = check_data_availability(data_date_range)
check ==
    /\ dpc = "check"
    /\ sinceCheck' = <<>>
    /\ \/ /\ data_is_missing' = check_data_availability(data_date_range, present)
          /\ verified' = IF Len(verified) < MaxChecks
                         THEN Append(verified, findMissing(data_date_range, present))
                         ELSE verified
          /\ dpc' = AfterCheck(data_is_missing')
          /\ UNCHANGED <<cycles, splits, pool>>
       \/ Except
    /\ UNCHANGED present
    /\ UNCHANGED <<offsetVars, ingestVars>>
    /\ UNCHANGED jobVars

\* line 202: remove_licenses_from_directory
remove_licenses ==
    /\ dpc = "remove_licenses"
    /\ \/ /\ dpc' = "ingest"
          /\ UNCHANGED <<data_is_missing, verified, cycles, splits, pool>>
       \/ Except
    /\ UNCHANGED <<present, sinceCheck>>
    /\ UNCHANGED <<offsetVars, ingestVars>>
    /\ UNCHANGED jobVars

\* lines 204-209: perform_data_operations is submitted for each store
pool_submit ==
    /\ dpc = "ingest"
    /\ pool' = [u \in PoolUnits |-> "ingesting"]
    /\ dpc' = "ingest_wait"
    /\ UNCHANGED <<data_is_missing, present, verified, cycles, sinceCheck, splits>>
    /\ UNCHANGED <<offsetVars, ingestVars>>
    /\ UNCHANGED jobVars

\* a unit without the try block: the exception of the ingestion job ends
\* the run at the except clause of line 212
pdo_ingest_raise(u) ==
    /\ pool[u] = "ingesting"
    /\ \/ /\ pool' = [pool EXCEPT ![u] = "metadata"]
          /\ UNCHANGED dpc
       \/ /\ pool' = [pool EXCEPT ![u] = "failed"]
          /\ dpc' = "error"
    /\ UNCHANGED <<data_is_missing, present, verified, cycles, sinceCheck, splits>>
    /\ UNCHANGED <<offsetVars, ingestVars>>
    /\ UNCHANGED jobVars

\* perform_data_operations, lines 139-143 and 155: the ingestion job of the
\* store returns and the unit goes on to the metadata, or raises and the
\* except clause catches the exception
pdo_ingest(u) ==
    /\ pool[u] = "ingesting"
    /\ \E end \in {"metadata", "ingest_raised"} : pool' = [pool EXCEPT ![u] = end]
    /\ UNCHANGED <<dpc, data_is_missing, present, verified, cycles, sinceCheck, splits>>
    /\ UNCHANGED <<offsetVars, ingestVars>>
    /\ UNCHANGED jobVars

\* perform_data_operations, lines 144-146 and 155: update_zarr_metadata
\* returns and the unit ends, or raises and the except clause catches the
\* exception
pdo_metadata(u) ==
    /\ pool[u] = "metadata"
    /\ \E end \in {"done", "metadata_raised"} : pool' = [pool EXCEPT ![u] = end]
    /\ UNCHANGED <<dpc, data_is_missing, present, verified, cycles, sinceCheck, splits>>
    /\ UNCHANGED <<offsetVars, ingestVars>>
    /\ UNCHANGED jobVars

\* an except clause that logs the error and goes on to the metadata
AfterExcept_metadata == "metadata"

\* where the except clause of lines 155-157 leaves the unit: at its end
AfterExcept == "failed"

\* perform_data_operations, lines 155-157: the except clause logs the error
\* of the call that raised and the unit returns
pdo_except(u) ==
    /\ pool[u] \in {"ingest_raised", "metadata_raised"}
    /\ pool' = [pool EXCEPT ![u] = AfterExcept]
    /\ UNCHANGED <<dpc, data_is_missing, present, verified, cycles, sinceCheck, splits>>
    /\ UNCHANGED <<offsetVars, ingestVars>>
    /\ UNCHANGED jobVars

\* lines 204 and 211: the with block of the pool ends when every unit has
\* ended; the run logs that the update is completed
pool_exit ==
    /\ dpc = "ingest_wait"
    /\ \A u \in PoolUnits : pool[u] \in {"done", "failed"}
    /\ dpc' = "completed"
    /\ UNCHANGED <<data_is_missing, present, verified, cycles, sinceCheck, splits, pool>>
    /\ UNCHANGED <<offsetVars, ingestVars>>
    /\ UNCHANGED jobVars

DriverNext ==
    \/ configure
    \/ raw_data_download_dataflow_job
    \/ split_submit
    \/ \E d \in SPLITTING_DATASETS : split_run(d)
    \/ split_return
    \/ avail_start
    \/ loop_test
    \/ check
    \/ remove_licenses
    \/ pool_submit
    \/ \E u \in PoolUnits : pdo_ingest(u)
    \/ \E u \in PoolUnits : pdo_metadata(u)
    \/ \E u \in PoolUnits : pdo_except(u)
    \/ pool_exit

DriverSpec == DriverInit /\ [][DriverNext]_vars

\* the main thread and the pool threads keep running: a statement that can
\* be executed is executed
FairDriverSpec == DriverSpec /\ WF_vars(DriverNext)

-----------------------------------------------------------------------------
(* Claims on the driver *)

Terminated == dpc \in {"completed", "error"}

\* C5: the retry loop is bounded: no run of the driver stays in the loop for
\* ever; every run ends, completed or with an error.
C5_LoopTerminates == <>Terminated

PoolStarted == \E u \in PoolUnits : pool[u] # "pending"

PoolEnded == \A u \in PoolUnits : pool[u] \in {"done", "failed"}

\* C6: the run logs that the update is completed only when a check was made
\* and the last check found nothing missing.
C6_DoneOnlyWhenVerified ==
    dpc = "completed" =>
        /\ Len(verified) >= 1
        /\ data_is_missing = FALSE
        /\ findMissing(data_date_range, present) = {}

C6_Witness ==
    /\ dpc = "completed"
    /\ Len(verified) = 2 /\ verified[1] # {} /\ verified[2] = {}

C8_OneCyclePerGap ==
    /\ dpc = "check" => sinceCheck = <<"download", "split">>
    /\ (Len(verified) >= 1 /\ ~ data_is_missing) => sinceCheck = <<>>
    /\ (Len(verified) >= 1 /\ data_is_missing /\ dpc # "error") =>
          /\ sinceCheck \in {<<>>, <<"download">>, <<"download", "split">>}
          /\ dpc = "re_download" <=> sinceCheck = <<>>
    /\ (dpc = "completed" /\ Len(verified) < MaxChecks) =>
          cycles = Len(verified) - 1
    /\ ( /\ dpc \in {"remove_licenses", "ingest", "ingest_wait", "completed"}
         /\ Len(verified) = 2 /\ Cardinality(verified[1]) = 1 ) => cycles = 1

C8_Witness ==
    /\ dpc = "completed"
    /\ Len(verified) = 2 /\ Cardinality(verified[1]) = 1 /\ verified[2] = {}
    /\ cycles = 1

-----------------------------------------------------------------------------
(* The lookups in the two catalogs: variable_dict[chunk] of                *)
(* GenerateOffset.apply and CO_FILES_MAPPING[...] of                       *)
(* ingest_data_in_zarr_dataflow_job, ingest_data_in_zarr.py:50-98          *)

\* sub in s, for str
Contains(s, sub) ==
    \E i \in 1..(Len(s) - Len(sub) + 1) : SubSeq(s, i, i + Len(sub) - 1) = sub

BucketPath == <<"gs:", "/", "/", "gcp-public-data-arco-era5", "/">>

\* raw-to-zarr-to-bq.py:52-59
ZARR_FILES_LIST ==
    << BucketPath \o <<"ar", "/", "full_37-1h-0p25deg-chunk-1", ".", "zarr-v3">>,
       BucketPath \o <<"co", "/", "model-level-moisture", ".", "zarr-v2">>,
       BucketPath \o <<"co", "/", "model-level-wind", ".", "zarr-v2">>,
       BucketPath \o <<"co", "/", "single-level-forecast", ".", "zarr-v2">>,
       BucketPath \o <<"co", "/", "single-level-reanalysis", ".", "zarr-v2">>,
       BucketPath \o <<"co", "/", "single-level-surface", ".", "zarr-v2">> >>

\* single-levels-to-zarr.py:144-160
default_chunks ==
    <<"cape", "cisst", "sfc", "tcol",
      "soil_depthBelowLandLayer_istl1", "soil_depthBelowLandLayer_istl2",
      "soil_depthBelowLandLayer_istl3", "soil_depthBelowLandLayer_istl4",
      "soil_depthBelowLandLayer_stl1", "soil_depthBelowLandLayer_stl2",
      "soil_depthBelowLandLayer_stl3", "soil_depthBelowLandLayer_stl4",
      "soil_depthBelowLandLayer_swvl1", "soil_depthBelowLandLayer_swvl2",
      "soil_depthBelowLandLayer_swvl3", "soil_depthBelowLandLayer_swvl4",
      "soil_surface_tsn">>

\* ingest_data_in_zarr.py:65-98: the command the call builds, or the
\* exception that leaves it before a command is built
ingest_data_in_zarr_dataflow_job(target_path) ==
    IF Contains(target_path, <<"/", "ar", "/">>)
    THEN [done |-> TRUE, ok |-> TRUE, file |-> "AR_FILE_PATH",
          output_path |-> target_path]
    ELSE LET parts == split(target_path, "/")
             key == split(parts[Len(parts)], ".")[1]
             chunks == getitem(CO_FILES_MAPPING, Join(key))
         IN  IF ~ chunks.ok THEN Raise(chunks.error)
             ELSE [done |-> TRUE, ok |-> TRUE, file |-> "CO_FILE_PATH",
                   output_path |-> target_path, chunks |-> chunks.value,
                   time_per_day |->
                       IF Contains(target_path, <<"single-level-forecast">>)
                       THEN 2 ELSE 24]

\* the target_path of a store: its directory (ar, co), its name, what follows
StorePath(store) == BucketPath \o <<store.dir, "/">> \o store.name \o store.tail

\* the stores a call is made for: those of ZARR_FILES_LIST, and stores that
\* CO_FILES_MAPPING does not list
Stores ==
    {[dir |-> "ar", name |-> <<"full_37-1h-0p25deg-chunk-1">>, tail |-> <<".", "zarr-v3">>]}
    \cup {[dir |-> "co", name |-> <<n>>, tail |-> <<".", "zarr-v2">>] :
             n \in DOMAIN CO_FILES_MAPPING \cup {"pressure-level", "sfc"}}
    \cup {[dir |-> "co", name |-> <<"single-level-forecast", "-", "v2">>,
            tail |-> <<".", "zarr-v2">>],
           [dir |-> "co", name |-> <<"model-level-wind", "-", "1h">>, tail |-> <<>>],
           [dir |-> "co", name |-> <<"single-level-surface">>, tail |-> <<>>],
           [dir |-> "ar", name |-> <<"pressure-level">>, tail |-> <<".", "zarr-v3">>]}

\* group names that variable_dict does not list: the datasets before they
\* are split, and split files of variables of other groups
UnknownGroups == {"soil", "pcp", "soil_surface_d", "pcp_depthBelowLandLayer_tp"}

GroupNames == DOMAIN variable_dict \cup UnknownGroups

\* either one url is mapped by a GenerateOffset stage, or one call of
\* ingest_data_in_zarr_dataflow_job is made
CatalogInit ==
    /\ \/ /\ gen \in {g \in Generators : g.timestamps_per_file = 24}
          /\ shards \in {<<sh>> : sh \in {x \in ShardsOf(RecentYears, GroupNames) :
                                              ValidShard(x)}}
          /\ job = NoJob
       \/ /\ gen = "none" /\ shards = <<>>
          /\ job \in {[called |-> TRUE, store |-> st, target_path |-> StorePath(st),
                        result |-> Pending] : st \in Stores}
    /\ pcoll = [i \in 1..Len(shards) |-> ShardUrl(shards[i])]
    /\ offsets = [i \in 1..Len(shards) |-> Pending]
    /\ target = "none" /\ units = <<>> /\ tmpfiles = {} /\ zarr = <<>>
    /\ DriverIdle

\* the call of ingest_data_in_zarr_dataflow_job(target_path, ...)
launch_job ==
    /\ job.called /\ job.result = Pending
    /\ job' = [job EXCEPT !.result = ingest_data_in_zarr_dataflow_job(job.target_path)]
    /\ UNCHANGED offsetVars
    /\ UNCHANGED ingestVars
    /\ UNCHANGED driverVars

CatalogNext ==
    \/ \E i \in Elements : GenerateOffset_expand(i)
    \/ launch_job

CatalogSpec == CatalogInit /\ [][CatalogNext]_vars

-----------------------------------------------------------------------------
(* Claims on the catalogs *)

\* C11: a lookup of a name that is not registered fails with an error and
\* gives no list: GenerateOffset.apply returns no region and no variable
\* list for a shard whose group variable_dict does not list (the error is
\* KeyError when the date of the name is read), and
\* ingest_data_in_zarr_dataflow_job builds no command for a CO store whose
\* name CO_FILES_MAPPING does not list.
C11_UnknownGroupFails ==
    /\ \A i \in 1..Len(shards) :
          (offsets[i].done /\ shards[i].chunk \notin DOMAIN variable_dict) =>
              /\ ~ offsets[i].ok
              /\ DOMAIN offsets[i] \cap {"region", "vars"} = {}
              /\ FormMatches(shards[i]) => offsets[i].error = "KeyError"
    /\ ( /\ job.called /\ job.result.done
         /\ job.store.dir = "co"
         /\ Join(job.store.name) \notin DOMAIN CO_FILES_MAPPING ) =>
              /\ ~ job.result.ok
              /\ job.result.error = "KeyError"
              /\ DOMAIN job.result \cap {"chunks", "output_path"} = {}

C11_Witness ==
    /\ Len(shards) = 1
    /\ shards[1].chunk = "soil_surface_d" /\ shards[1].form = "month"
    /\ gen.is_single_level
    /\ offsets[1].done /\ ~ offsets[1].ok /\ offsets[1].error = "KeyError"

-----------------------------------------------------------------------------
(* Further claims on the GenerateOffset stage *)

\* C12: GenerateOffset.apply never returns a region with a negative start:
\* for a shard whose date is earlier than the epoch it fails and returns no
\* slice, so every region it returns has start >= 0.
C12_StartNonNegative ==
    \A i \in 1..Len(shards) :
        /\ Returned(i) => offsets[i].region.start >= 0
        /\ ( /\ offsets[i].done /\ FormMatches(shards[i])
             /\ DateKey(ShardDate(shards[i])) < DateKey(EpochOf(gen)) ) =>
              ~ offsets[i].ok

-----------------------------------------------------------------------------
(* Further claims on the UpdateSlice stage *)

\* the region of element i of its n-th variable holds the values of its shard
Wrote(i, n) ==
    \E r \in zarr[offsets[i].vars[n]] :
        /\ r.start = offsets[i].region.start /\ r.stop = offsets[i].region.stop
        /\ r.values = <<shards[i], offsets[i].vars[n]>>

\* no other element writes a position of a variable that element i writes
WritesAlone(i) ==
    \A j \in 1..Len(units) : (j # i /\ Returned(j)) => ~ WritesOverlap(i, j)

\* what a unit that writes alone has written is a beginning of its list: the
\* variables before its loop index while it runs, all of them when it is
\* done, and the first k - 1 of them for some k when it ended in failure
C13_Prefix ==
    \A i \in 1..Len(units) :
        (Returned(i) /\ WritesAlone(i)) =>
            LET n == Len(offsets[i].vars)
            IN  /\ units[i].pc = "writing" =>
                      \A m \in 1..n : Wrote(i, m) <=> m < units[i].k
                /\ units[i].pc = "done" => \A m \in 1..n : Wrote(i, m)
                /\ units[i].pc \in {"failed", "cancelled"} =>
                      \E k \in 1..(n + 1) : \A m \in 1..n : Wrote(i, m) <=> m < k
                /\ units[i].pc \in {"idle", "opener", "copy", "yielded"} =>
                      \A m \in 1..n : ~ Wrote(i, m)

\* a step of a unit: leaving in failure changes nothing in the store; a turn
\* of the loop writes the variable the loop index stands at and no other;
\* the unit ends in success only from the end of its list
C13_Step ==
    \A i \in 1..Len(units) :
        /\ (units[i].pc # units'[i].pc /\ units'[i].pc \in {"failed", "cancelled"}) =>
              zarr' = zarr
        /\ (units[i].pc = "writing" /\ units'[i].pc = "writing"
                /\ units'[i].k # units[i].k) =>
              /\ units'[i].k = units[i].k + 1
              /\ \A v \in DOMAIN zarr :
                    v # offsets[i].vars[units[i].k] => zarr'[v] = zarr[v]
              /\ \E r \in zarr'[offsets[i].vars[units[i].k]] :
                    /\ r.start = offsets[i].region.start
                    /\ r.stop = offsets[i].region.stop
                    /\ r.values = <<shards[i], offsets[i].vars[units[i].k]>>
        /\ (units[i].pc # "done" /\ units'[i].pc = "done") =>
              /\ units[i].pc = "writing"
              /\ units[i].k = Len(offsets[i].vars) + 1
              /\ zarr' = zarr

\* C13: UpdateSlice.apply writes the variables of a shard one by one in the
\* order of the catalog and takes nothing back: when the k-th write fails
\* the first k - 1 variables keep the new values, the others are not written
\* by the unit and the unit ends in failure; it ends in success only when
\* every variable of the group has been written.
C13_NoRollback == []C13_Prefix /\ [][C13_Step]_vars

\* a unit ended in failure with its first variable written and its second not
C13_Witness ==
    \E i \in 1..Len(units) :
        /\ Returned(i) /\ WritesAlone(i)
        /\ units[i].pc = "failed"
        /\ Len(offsets[i].vars) >= 2
        /\ Wrote(i, 1) /\ ~ Wrote(i, 2)

-----------------------------------------------------------------------------
(* A job whose PCollection holds the url of one shard twice, and the url   *)
(* of another shard *)

\* the stores of the jobs with three elements: those with the shortest
\* variable lists
ReingestStores == {"model-level-wind", "single-level-surface"}

ReingestInit ==
    /\ target \in ReingestStores
    /\ gen \in {g \in Generators :
                  /\ g.timestamps_per_file = time_per_day(target)
                  /\ g.init_date = IsoDate(1900, 1, 1)}
    /\ \E form \in {"month", "day"} :
          /\ (form = "month") <=> gen.is_single_level
          /\ shards \in {<<a, a, b>> : a, b \in JobShards(target, form)}
    /\ shards[3] # shards[1]
    /\ pcoll = [i \in 1..Len(shards) |-> ShardUrl(shards[i])]
    /\ offsets = [i \in 1..Len(shards) |-> Pending]
    /\ units = [i \in 1..Len(shards) |-> Idle]
    /\ tmpfiles = {}
    /\ zarr = [v \in StoreVars(target) |-> {}]
    /\ DriverIdle
    /\ JobIdle

ReingestSpec == ReingestInit /\ [][IngestNext]_vars

\* unit i has ingested its shard, and unit j is another unit of the same shard
SecondRun(i, j) ==
    /\ i # j /\ pcoll[i] = pcoll[j]
    /\ units[i].pc = "done"
    /\ Returned(i) /\ Returned(j)
    /\ offsets[i] = offsets[j]

\* C14: ingesting a shard a second time leaves the store as the first
\* ingestion left it: once a unit of a shard is done, no step of another
\* unit of the same shard changes the store, whatever the units of other
\* shards (which share no position with it) do in between.
C14_Idempotent ==
    [][\A i, j \in 1..Len(units) :
          ( /\ SecondRun(i, j)
            /\ \A u \in 1..Len(units) \ {i, j} : Returned(u) => ~ WritesOverlap(i, u)
            /\ units'[j] # units[j] ) => zarr' = zarr]_vars

\* the second unit of a shard is done after the first, the unit of the other
\* shard having written in between
C14_Witness ==
    /\ Len(units) = 3
    /\ SecondRun(1, 2) /\ units[2].pc = "done"
    /\ units[3].pc = "writing" /\ units[3].k > 1
    /\ \A n \in 1..Len(offsets[1].vars) : Wrote(1, n)

-----------------------------------------------------------------------------
(* Further claims on the driver *)

SomeUnitFailed == \E u \in PoolUnits : pool[u] = "failed"

\* C15: a failure in a unit of the pool stays in the unit: the step in
\* which a unit fails changes no other unit and not the driver, the driver
\* never ends at its except clause once a unit has failed, and every unit
\* runs to its end, after which the driver completes.
C15_SiblingsNotAborted ==
    /\ [](SomeUnitFailed => dpc \in {"ingest_wait", "completed"})
    /\ [][\A u \in PoolUnits :
             (pool[u] # "failed" /\ pool'[u] = "failed") =>
                 /\ dpc' = dpc
                 /\ \A w \in PoolUnits \ {u} : pool'[w] = pool[w]]_vars
    /\ (SomeUnitFailed ~> (PoolEnded /\ dpc = "completed"))

\* one unit failed, another is done, and the driver completed
C15_Witness ==
    /\ dpc = "completed"
    /\ \E u, w \in PoolUnits : pool[u] = "failed" /\ pool[w] = "done"

\* C16: the driver never reports plain completion for a run in which a unit
\* failed: what it reports at the end tells a run in which every unit
\* succeeded from one in which some unit failed.  The only report is the
\* log line "completed" of line 211, so it must not be reached with a
\* failed unit.
C16_NoSilentPartialSuccess ==
    dpc = "completed" => \A u \in PoolUnits : pool[u] = "done"

-----------------------------------------------------------------------------
(* Further claims on the catalogs *)

\* the elements of a list
ListItems(l) == {l[n] : n \in 1..Len(l)}

\* the groups the driver dispatches: those of the CO stores and the default
\* chunks of single-levels-to-zarr
DispatchedGroups ==
    UNION {ListItems(CO_FILES_MAPPING[st]) : st \in DOMAIN CO_FILES_MAPPING}
    \cup ListItems(default_chunks)

\* a list that is not empty and names nothing twice
DistinctNonEmpty(l) ==
    /\ Len(l) >= 1
    /\ \A m, n \in 1..Len(l) : m # n => l[m] # l[n]

\* C17: every group the driver dispatches is a key of variable_dict with a
\* list of distinct variables that is not empty, and every CO store of
\* ZARR_FILES_LIST is a key of CO_FILES_MAPPING: the lookup of a dispatched
\* group or store does not fail.
C17_CatalogConsistent ==
    /\ \A g \in DispatchedGroups :
          g \in DOMAIN variable_dict /\ DistinctNonEmpty(variable_dict[g])
    /\ Len(ZARR_FILES_LIST) = NumZarrFiles
    /\ \A n \in 1..Len(ZARR_FILES_LIST) :
          LET path == ZARR_FILES_LIST[n]
          IN  path[Len(BucketPath) + 1] = "co" =>
                  path[Len(BucketPath) + 3] \in DOMAIN CO_FILES_MAPPING
    /\ \A i \in 1..Len(shards) :
          ( /\ offsets[i].done /\ FormMatches(shards[i])
            /\ shards[i].chunk \in DispatchedGroups ) =>
              /\ offsets[i].ok
              /\ DistinctNonEmpty(offsets[i].vars)
    /\ ( /\ job.called /\ job.result.done
         /\ job.target_path \in ListItems(ZARR_FILES_LIST) ) =>
              /\ job.result.ok
              /\ job.store.dir = "co" => DistinctNonEmpty(job.result.chunks)

\* the call for the store single-level-reanalysis has built its command with
\* the seventeen groups of the store
C17_Witness ==
    /\ job.called /\ job.result.done /\ job.result.ok
    /\ job.target_path = ZARR_FILES_LIST[5]
    /\ job.result.chunks = CO_FILES_MAPPING["single-level-reanalysis"]
    /\ Len(job.result.chunks) = 17

-----------------------------------------------------------------------------
(* The availability check *)

\* C18: the check covers every date of the range, the first and the last
\* included: it reports a gap exactly when some date of the range is not
\* present, and what it finds missing is exactly the dates not present; with
\* every date present it finds nothing, and with one date d alone not
\* present, d being any date of the range, it finds d.
C18_VerifierInclusive ==
    [][(dpc = "check" /\ dpc' \notin {"check", "error"}) =>
          /\ data_is_missing' <=> (\E d \in 1..NumDates : d \notin present)
          /\ Len(verified) < MaxChecks =>
                verified'[Len(verified')] = {d \in 1..NumDates : d \notin present}
          /\ present = 1..NumDates => ~ data_is_missing'
          /\ \A d \in 1..NumDates :
                present = (1..NumDates) \ {d} =>
                    /\ data_is_missing'
                    /\ Len(verified) < MaxChecks => verified'[Len(verified')] = {d}]_vars

\* the first check found the last date alone missing, the second check
\* found nothing missing
C18_Witness ==
    /\ Len(verified) = 2
    /\ verified[1] = {NumDates} /\ verified[2] = {}
    /\ ~ data_is_missing

-----------------------------------------------------------------------------
(* make_path and GenerateOffset.apply *)

\* element i is the month file that make_path builds for a group of the catalog
MonthFileOfCatalog(i) ==
    /\ shards[i].form = "month"
    /\ shards[i].chunk \in DOMAIN variable_dict
    /\ pcoll[i] = make_path(shards[i].time, Tokens(shards[i].chunk))

\* apply has read the year and the month of shard i: the region it returns
\* is that of the first day of the month, for the days of the month
ReadsMonth(i) ==
    /\ offsets[i].region.start =
          DaysBetween(EpochOf(gen), ShardDate(shards[i])) * gen.timestamps_per_file
    /\ RegionLength(i) =
          gen.timestamps_per_file *
              CalendarDays(shards[i].time.year, shards[i].time.month)

-----------------------------------------------------------------------------
(* The regions of consecutive shards *)

\* shard b is the shard after shard a: the file of the next month, or the
\* file of the next day
Consecutive(a, b) ==
    /\ a.form = b.form /\ a.chunk = b.chunk
    /\ IF a.form = "month"
       THEN b.time.year * 12 + b.time.month = a.time.year * 12 + a.time.month + 1
       ELSE DaysSince1900(b.time) = DaysSince1900(a.time) + 1

\* C20: the regions of consecutive shards of a group tile the time axis:
\* under is_single_level the region of a month file ends where that of the
\* next month begins, over the end of a year and over February of leap and
\* other years, and otherwise the region of a day file ends where that of
\* the next day begins.
C20_RegionsTile ==
    ( /\ Len(shards) = 2
      /\ Returned(1) /\ Returned(2)
      /\ FormMatches(shards[1]) /\ FormMatches(shards[2])
      /\ Consecutive(shards[1], shards[2]) ) =>
        /\ offsets[1].region.stop = offsets[2].region.start
        /\ offsets[1].region.start < offsets[1].region.stop

\* the month files of February and March 2024
C20_Witness ==
    /\ Len(shards) = 2
    /\ Returned(1) /\ Returned(2)
    /\ gen.is_single_level
    /\ shards[1].form = "month"
    /\ shards[1].time = [year |-> 2024, month |-> 2, day |-> 1]
    /\ shards[2].time = [year |-> 2024, month |-> 3, day |-> 1]
    /\ Consecutive(shards[1], shards[2])
    /\ offsets[1].region.stop = offsets[2].region.start
    /\ RegionLength(1) = 29 * gen.timestamps_per_file

-----------------------------------------------------------------------------
(* What a unit leaves alone in the store *)

\* what position p of an array holds: the source of the stretch it lies in
\* and the index in that source, or nothing where no stretch has been written
ValueAt(array, p) ==
    {<<r.values, p - r.origin>> : r \in {x \in array : x.start <= p /\ p < x.stop}}

\* the positions at which what an array holds can change from one source to
\* another, before or after a step: the ends of its stretches and of the
\* region; between two of them in a row the array holds one source, so two
\* arrays that agree at each of them agree everywhere
Breaks(old, new, region) ==
    {r.start : r \in old \cup new} \cup {r.stop : r \in old \cup new}
        \cup {region.start, region.stop}

\* C21: a step of UpdateSlice.apply changes only positions [start, end) of
\* the arrays of the variables in the list of its shard: the array of every
\* other variable, and every position outside [start, end) of a listed
\* variable, holds after the step what it held before, whether the unit goes
\* on, ends in success or ends in failure; and a step that is not of a unit
\* changes nothing in the store.
C21_FrameEffect ==
    [][ /\ \A i \in 1..Len(units) :
             units'[i] # units[i] =>
                 \A v \in DOMAIN zarr :
                     IF v \in VarSet(i)
                     THEN \A p \in Breaks(zarr[v], zarr'[v], offsets[i].region) :
                              (p < offsets[i].region.start \/ p >= offsets[i].region.stop)
                                  => ValueAt(zarr'[v], p) = ValueAt(zarr[v], p)
                     ELSE zarr'[v] = zarr[v]
        /\ units' = units => zarr' = zarr ]_vars

\* a unit ended in failure after it wrote a variable, while the array of that
\* variable holds values of the other shard at other positions and an array
\* the unit does not write holds values too
C21_Witness ==
    \E i, j \in 1..Len(units) :
        /\ i # j /\ Returned(i) /\ Returned(j)
        /\ units[i].pc = "failed"
        /\ \E n \in 1..Len(offsets[i].vars) :
              /\ Wrote(i, n)
              /\ \E r \in zarr[offsets[i].vars[n]] :
                    /\ r.values[1] = shards[j]
                    /\ (r.stop <= offsets[i].region.start
                           \/ r.start >= offsets[i].region.stop)
        /\ \E v \in DOMAIN zarr \ VarSet(i) : zarr[v] # {}

-----------------------------------------------------------------------------
(* The metadata of a store *)

\* C22: in perform_data_operations update_zarr_metadata is called only when
\* the ingestion job call of the store has returned, and at most once for a
\* unit: a unit comes to the metadata update only from its ingestion call,
\* comes to its ingestion call only from its submission, a unit whose
\* ingestion call raised goes to its end without the metadata update, and a
\* unit that has ended stays ended.
C22_MetadataAfterIngest ==
    [][\A u \in PoolUnits :
          /\ (pool'[u] = "metadata" /\ pool[u] # "metadata") => pool[u] = "ingesting"
          /\ (pool'[u] = "ingesting" /\ pool[u] # "ingesting") => pool[u] = "pending"
          /\ pool[u] = "ingest_raised" => pool'[u] \in {"ingest_raised", "failed"}
          /\ pool[u] = "metadata" =>
                pool'[u] \in {"metadata", "metadata_raised", "done"}
          /\ pool[u] = "metadata_raised" => pool'[u] \in {"metadata_raised", "failed"}
          /\ pool[u] \in {"done", "failed"} => pool'[u] = pool[u]]_vars

\* the ingestion call of one unit raised, while the metadata of another
\* store is being updated and that of a third is updated
C22_Witness ==
    \E u, w, x \in PoolUnits :
        pool[u] = "ingest_raised" /\ pool[w] = "metadata" /\ pool[x] = "done"

-----------------------------------------------------------------------------
(* The pool of the split commands *)

InSplit == dpc \in {"split", "re_split"}

\* C23: data_splitting_dataflow_job returns only when every split command
\* it submitted has ended, in success or in failure: the driver leaves the
\* function only from a state in which each command has ended, and outside
\* the function no split command runs, so none runs during an availability
\* check, and none of one cycle runs during the download of the next.
C23_SplitJoined ==
    /\ [](~ InSplit => \A d \in SPLITTING_DATASETS : splits[d] # "running")
    /\ [][(InSplit /\ ~ InSplit') =>
             \A d \in SPLITTING_DATASETS : splits[d] \in {"done", "failed"}]_vars

\* the driver stands at the availability check that follows the download and
\* the split of a turn of the loop, and no split command runs
C23_Witness ==
    /\ dpc = "check"
    /\ cycles >= 1
    /\ sinceCheck = <<"download", "split">>
    /\ \A d \in SPLITTING_DATASETS : splits[d] = "idle"

=============================================================================
